---- MODULE Spec2Model ----
(***************************************************************************)
(* A model of src/Main.py: the context-selection engine                    *)
(* (build_semantic_context), its two call sites (analyze_code_with_gemini, *)
(* get_rag_response) and the Flask request handlers that read and write    *)
(* the three SQLite tables.                                                *)
(*                                                                         *)
(* Python strings are TLA+ strings (sequences of characters): s[:n] is     *)
(* Slice(s, n), `t in s` is Contains(t, s), s.lower() is lower(s).         *)
(* An optional column value (None or a string) is a record                 *)
(* [isNone, val].                                                          *)
(***************************************************************************)
EXTENDS Integers, Sequences, FiniteSets, TLC

VARIABLES
    \* ---- build_semantic_context: arguments and locals ----
    user_query,      \* argument user_query
    arg_files,       \* argument code_files (rows content, filename, language, analysis)
    arg_history,     \* argument chat_history (pairs user_message, bot_response)
    scores,          \* relevance_score of each row of arg_files, in loop order
    relevant_files,  \* local relevant_files after the sort and the [:3] cut
    context_parts,   \* local context_parts
    context,         \* the returned string "\n".join(context_parts)
    bsc_pc,          \* "args": rows being chosen; "generating": context built,
                     \* generate call pending; "returned": the call has returned
    call,            \* the entry point called last, what generate did, what it returned
    \* ---- the application: tables, browser session, requests ----
    users,           \* table users, in id order (id = position)
    code_files,      \* table code_files, in id order
    file_seq,        \* sqlite_sequence of code_files (AUTOINCREMENT high-water mark)
    chat_history,    \* table chat_history, in id order (id = position)
    now,             \* CURRENT_TIMESTAMP, in whole seconds
    session,         \* the browser's signed session cookie
    inflight         \* requests blocked in model.generate_content, per worker

bscVars == <<user_query, arg_files, arg_history, scores, relevant_files,
             context_parts, context, bsc_pc, call>>
appVars == <<users, code_files, file_seq, chat_history, now, session,
             inflight>>
vars == <<bscVars, appVars>>

-----------------------------------------------------------------------------
(* Python string and list primitives *)

Min(a, b) == IF a <= b THEN a ELSE b

\* s[:n] for a string or a list
Slice(s, n) == SubSeq(s, 1, Min(n, Len(s)))

\* t in s (substring test; the empty string is in every string)
Contains(t, s) ==
    \E i \in 1..(Len(s) - Len(t) + 1) : SubSeq(s, i, i + Len(t) - 1) = t

UpperCase == "ABCDEFGHIJKLMNOPQRSTUVWXYZ"
LowerCase == "abcdefghijklmnopqrstuvwxyz"

\* str.lower() on one ASCII character: the table of the 26 capital letters
LowerTable ==
    [c \in {SubSeq(UpperCase, i, i) : i \in 1..Len(UpperCase)} |->
        LET i == CHOOSE j \in 1..Len(UpperCase) : SubSeq(UpperCase, j, j) = c
        IN  SubSeq(LowerCase, i, i)]

LowerChar(c) == IF c \in DOMAIN LowerTable THEN LowerTable[c] ELSE c

\* str.lower(), character by character (ASCII text)
RECURSIVE lower(_)
lower(s) ==
    IF Len(s) = 0 THEN ""
    ELSE IF Len(s) = 1 THEN LowerChar(s)
    ELSE LET h == Len(s) \div 2
         IN  lower(SubSeq(s, 1, h)) \o lower(SubSeq(s, h + 1, Len(s)))

\* reversed(seq)
Reversed(s) == [i \in 1..Len(s) |-> s[Len(s) + 1 - i]]

\* "\n".join(parts)
RECURSIVE Join(_)
Join(parts) ==
    IF Len(parts) = 0 THEN ""
    ELSE IF Len(parts) = 1 THEN parts[1]
    ELSE parts[1] \o "\n" \o Join(Tail(parts))

\* the concatenation of a list of lists
RECURSIVE Flatten(_)
Flatten(ss) == IF Len(ss) = 0 THEN <<>> ELSE Head(ss) \o Flatten(Tail(ss))

\* an optional value: None, or a string
None == [isNone |-> TRUE, val |-> ""]
Some(s) == [isNone |-> FALSE, val |-> s]
\* Python truthiness of an optional string: not None and not empty
Truthy(o) == ~o.isNone /\ Len(o.val) > 0
\* how an f-string renders an optional string
Fmt(o) == IF o.isNone THEN "None" ELSE o.val

-----------------------------------------------------------------------------
(* build_semantic_context, src/Main.py lines 221-280 *)

\* the per-field character limits of the four truncation sites
ResponseLimit == 200
ContentLimit == 1000
AnalysisLimit == 500
FallbackLimit == 800
\* relevant_files[:3] and code_files[:2]
TopRelevant == 3
TopRecent == 2

programming_terms ==
    <<"function", "class", "import", "def", "var", "const", "let", "if",
      "for", "while", "try", "catch">>

\* the score with the weights of the language and the filename exchanged
relevance_score_swapped(query_lower, content, filename, language) ==
    LET content_lower == lower(content)
        by_language ==
            IF Truthy(language) /\ Contains(lower(language.val), query_lower)
            THEN 2 ELSE 0
        by_filename ==
            IF Contains(lower(filename), query_lower) THEN 3 ELSE 0
        by_terms ==
            Cardinality({i \in DOMAIN programming_terms :
                /\ Contains(programming_terms[i], query_lower)
                /\ Contains(programming_terms[i], content_lower)})
    IN  by_language + by_filename + by_terms

\* lines 239-253: the relevance score of one row against the lowercased query
relevance_score(query_lower, content, filename, language) ==
    LET content_lower == lower(content)
        by_language ==
            IF Truthy(language) /\ Contains(lower(language.val), query_lower)
            THEN 3 ELSE 0
        by_filename ==
            IF Contains(lower(filename), query_lower) THEN 2 ELSE 0
        by_terms ==
            Cardinality({i \in DOMAIN programming_terms :
                /\ Contains(programming_terms[i], query_lower)
                /\ Contains(programming_terms[i], content_lower)})
    IN  by_language + by_filename + by_terms

\* lines 234-253: the score of every row, in loop order
ScoreAll(query, files) ==
    LET query_lower == lower(query)
    IN  [i \in 1..Len(files) |->
            relevance_score(query_lower, files[i].content, files[i].filename,
                            files[i].language)]

\* lines 255-256: the rows with a positive score, in loop order
RECURSIVE Candidates(_, _)
Candidates(files, sc) ==
    IF Len(files) = 0 THEN <<>>
    ELSE LET rest == Candidates(Tail(files), Tail(sc))
         IN  IF Head(sc) > 0
             THEN <<[score |-> Head(sc), file |-> Head(files)]>> \o rest
             ELSE rest

\* list.sort(key = score, reverse = True): a stable sort, so rows of equal
\* score keep their order; x goes after every row whose score is >= its own
RECURSIVE InsertByScore(_, _)
InsertByScore(x, sorted) ==
    IF Len(sorted) = 0 THEN <<x>>
    ELSE IF Head(sorted).score >= x.score
         THEN <<Head(sorted)>> \o InsertByScore(x, Tail(sorted))
         ELSE <<x>> \o sorted

RECURSIVE SortByScore(_)
SortByScore(list) ==
    IF Len(list) = 0 THEN <<>>
    ELSE InsertByScore(list[Len(list)], SortByScore(SubSeq(list, 1, Len(list) - 1)))

\* an unstable sort: x goes before the rows of equal score
RECURSIVE InsertBeforeEqual(_, _)
InsertBeforeEqual(x, sorted) ==
    IF Len(sorted) = 0 THEN <<x>>
    ELSE IF Head(sorted).score > x.score
         THEN <<Head(sorted)>> \o InsertBeforeEqual(x, Tail(sorted))
         ELSE <<x>> \o sorted

RECURSIVE SortUnstable(_)
SortUnstable(list) ==
    IF Len(list) = 0 THEN <<>>
    ELSE InsertBeforeEqual(list[Len(list)],
                           SortUnstable(SubSeq(list, 1, Len(list) - 1)))

TopFilesUnstable(cands) == Slice(SortUnstable(cands), TopRelevant)

\* lines 259-260: sort by relevance and keep the top files
TopFiles(cands) == Slice(SortByScore(cands), TopRelevant)

\* line 230
AssistantLine(bot_resp) ==
    "Assistant: " \o Slice(bot_resp, ResponseLimit) \o "..."

\* lines 267 and 277
CodeLine(content, limit) ==
    "Code:\n" \o Slice(content, limit)
              \o (IF Len(content) > limit THEN "..." ELSE "")

\* line 269
AnalysisLine(analysis) ==
    "Previous Analysis: " \o Slice(analysis, AnalysisLimit)
                          \o (IF Len(analysis) > AnalysisLimit THEN "..." ELSE "")

\* lines 266 and 276
FileLine(f) == "File: " \o f.filename \o " (Language: " \o Fmt(f.language) \o ")"

\* lines 226-231: the conversation section
ConversationParts(history) ==
    IF Len(history) > 0
    THEN <<"RECENT CONVERSATION CONTEXT:">>
         \o Flatten([i \in 1..Len(history) |->
               <<"User: " \o Reversed(history)[i].user_message,
                 AssistantLine(Reversed(history)[i].bot_response)>>])
         \o <<"">>
    ELSE <<>>

\* lines 263-270: the relevant-files section
RelevantParts(relevant) ==
    IF Len(relevant) > 0
    THEN <<"RELEVANT CODE FILES:">>
         \o Flatten([i \in 1..Len(relevant) |->
               <<FileLine(relevant[i].file),
                 CodeLine(relevant[i].file.content, ContentLimit)>>
               \o (IF Truthy(relevant[i].file.analysis)
                   THEN <<AnalysisLine(relevant[i].file.analysis.val)>>
                   ELSE <<>>)
               \o <<"">>])
    ELSE <<>>

\* the fallback section emitted whenever there are code files
FallbackPartsAlways(relevant, files) ==
    IF Len(files) > 0
    THEN <<"USER'S RECENT CODE FILES:">>
         \o Flatten([i \in 1..Len(Slice(files, TopRecent)) |->
               <<FileLine(files[i]), CodeLine(files[i].content, FallbackLimit), "">>])
    ELSE <<>>

\* lines 273-278: the fallback section
FallbackParts(relevant, files) ==
    IF Len(relevant) = 0 /\ Len(files) > 0
    THEN <<"USER'S RECENT CODE FILES:">>
         \o Flatten([i \in 1..Len(Slice(files, TopRecent)) |->
               <<FileLine(files[i]), CodeLine(files[i].content, FallbackLimit), "">>])
    ELSE <<>>

\* the locals and the result of one call
build_semantic_context(query, files, history) ==
    LET sc       == ScoreAll(query, files)
        relevant == TopFiles(Candidates(files, sc))
        parts    == ConversationParts(history)
                    \o RelevantParts(relevant)
                    \o FallbackParts(relevant, files)
    IN  [scores |-> sc, relevant_files |-> relevant,
         context_parts |-> parts, context |-> Join(parts)]

-----------------------------------------------------------------------------
(* The storage helpers and the two generating call sites *)

\* most rows ever inserted into code_files and chat_history together
MaxRows == 2

\* LIMIT 10, LIMIT 3 and LIMIT 5 of the three SELECTs; the 5000 of save_chat_message
FilesFetched == 10
TurnsFetched == 3
SummaryFetched == 5
StoredContextLimit == 5000

\* what model.generate_content(prompt) followed by response.text can do
GenOutcomes ==
    {[ok |-> TRUE,  text |-> "Use a context manager."],
     [ok |-> FALSE, text |-> "429 quota exceeded"]}
\* what sqlite3.connect and the two SELECTs of get_rag_response can do
StorageOk == [ok |-> TRUE, text |-> ""]
StorageOutcomes == {StorageOk, [ok |-> FALSE, text |-> "database is locked"]}

\* hashlib.sha256(password.encode()).hexdigest(): deterministic and, for the
\* passwords in reach, injective; the digest is written sha256(<password>)
hash_password(password) == "sha256(" \o password \o ")"

verify_password(password, password_hash) == hash_password(password) = password_hash

\* the id of the row, or 0 when fetchone() returns None
get_user_by_username(username) ==
    IF \E i \in 1..Len(users) : users[i].username = username
    THEN CHOOSE i \in 1..Len(users) : users[i].username = username
    ELSE 0

get_user_by_email(email) ==
    IF \E i \in 1..Len(users) : users[i].email = email
    THEN CHOOSE i \in 1..Len(users) : users[i].email = email
    ELSE 0

\* the users table after the INSERT; lastrowid is its length
create_user(username, email, password) ==
    Append(users, [username |-> username, email |-> email,
                   password_hash |-> hash_password(password)])

\* a rowid table without AUTOINCREMENT: one more than the largest id present
ReusedFileId ==
    IF Len(code_files) = 0 THEN 1 ELSE code_files[Len(code_files)].id + 1

\* AUTOINCREMENT: the new id is one more than the largest id ever used
NextFileId == file_seq + 1

\* the code_files table after the INSERT of save_code_file
save_code_file(user_id, filename, content, language) ==
    Append(code_files,
           [id |-> NextFileId, user_id |-> user_id, filename |-> filename,
            content |-> content, language |-> Some(language),
            analysis |-> None, created_at |-> now])

\* UPDATE code_files SET analysis = ? WHERE id = ?
UpdateAnalysis(analysis, file_id) ==
    [i \in 1..Len(code_files) |->
        IF code_files[i].id = file_id
        THEN [code_files[i] EXCEPT !.analysis = Some(analysis)]
        ELSE code_files[i]]

\* ORDER BY created_at DESC over the rows a WHERE kept, in rowid order.
\* created_at has one-second resolution; SQLite's sorter returns rows of equal
\* created_at in scan order (lowest rowid first).
RECURSIVE InsertByCreated(_, _)
InsertByCreated(x, sorted) ==
    IF Len(sorted) = 0 THEN <<x>>
    ELSE IF Head(sorted).created_at >= x.created_at
         THEN <<Head(sorted)>> \o InsertByCreated(x, Tail(sorted))
         ELSE <<x>> \o sorted

RECURSIVE OrderByCreatedDesc(_)
OrderByCreatedDesc(rows) ==
    IF Len(rows) = 0 THEN <<>>
    ELSE InsertByCreated(rows[Len(rows)],
                         OrderByCreatedDesc(SubSeq(rows, 1, Len(rows) - 1)))

\* line 183: the user's 10 most recent code files
SelectCodeFiles(user_id) ==
    LET OfUser(r) == r.user_id = user_id
        rows == Slice(OrderByCreatedDesc(SelectSeq(code_files, OfUser)), FilesFetched)
    IN  [i \in 1..Len(rows) |->
            [content |-> rows[i].content, filename |-> rows[i].filename,
             language |-> rows[i].language, analysis |-> rows[i].analysis]]

\* line 187: the rows of the 3 most recent conversation turns
SelectChatRows(user_id) ==
    LET OfUser(r) == r.user_id = user_id
    IN  Slice(OrderByCreatedDesc(SelectSeq(chat_history, OfUser)), TurnsFetched)

\* line 187: the two columns the SELECT names
SelectChatHistory(user_id) ==
    LET rows == SelectChatRows(user_id)
    IN  [i \in 1..Len(rows) |->
            [user_message |-> rows[i].user_message,
             bot_response |-> rows[i].bot_response]]

\* analyze_code_with_gemini: one generate call inside try/except
analyze_code_with_gemini(gen) ==
    [returned |-> IF gen.ok THEN gen.text
                  ELSE "Error analyzing code: " \o gen.text,
     generate_calls |-> 1]

\* the locals of build_semantic_context when it was never called
NotBuilt == [scores |-> <<>>, relevant_files |-> <<>>,
             context_parts |-> <<>>, context |-> ""]

\* get_rag_response, lines 179-192: the storage reads and the context
\* assembly, inside the try.  A failure there is caught and ends the call.
RagContext(query, fetched_files, fetched_history, storage) ==
    IF storage.ok
    THEN [done |-> FALSE, returned |-> "",
          built |-> build_semantic_context(query, fetched_files, fetched_history)]
    ELSE [done |-> TRUE,
          returned |-> "Error generating response: " \o storage.text,
          built |-> NotBuilt]

\* get_rag_response with one retry of a failed generate call
get_rag_response_retry(rag, gen) ==
    IF rag.done
    THEN [returned |-> rag.returned, generate_calls |-> 0]
    ELSE [returned |-> IF gen.ok THEN gen.text
                       ELSE "Error generating response: " \o gen.text,
          generate_calls |-> IF gen.ok THEN 1 ELSE 2]

\* get_rag_response, lines 194-219: the generate call and the return
get_rag_response(rag, gen) ==
    IF rag.done
    THEN [returned |-> rag.returned, generate_calls |-> 0]
    ELSE [returned |-> IF gen.ok THEN gen.text
                       ELSE "Error generating response: " \o gen.text,
          generate_calls |-> 1]

\* lines 288-289 of save_chat_message
StoredContext(code_context) ==
    IF Len(code_context) > StoredContextLimit
    THEN Slice(code_context, StoredContextLimit) \o "... [truncated]"
    ELSE code_context

\* the INSERT with the message and the response bound to each other's column
save_chat_message_swapped(user_id, session_id, user_message, bot_response, code_context) ==
    Append(chat_history,
           [user_id |-> user_id, session_id |-> session_id,
            user_message |-> bot_response, bot_response |-> user_message,
            code_context |-> StoredContext(code_context), created_at |-> now])

\* the chat_history table after the INSERT of save_chat_message
save_chat_message(user_id, session_id, user_message, bot_response, code_context) ==
    Append(chat_history,
           [user_id |-> user_id, session_id |-> session_id,
            user_message |-> user_message, bot_response |-> bot_response,
            code_context |-> StoredContext(code_context), created_at |-> now])

-----------------------------------------------------------------------------
(* The core called directly: the rows the storage reads return are chosen,
   then get_rag_response or analyze_code_with_gemini runs on them *)

\* n copies of the one-character string c
RECURSIVE Rep(_, _)
Rep(c, n) ==
    IF n = 0 THEN ""
    ELSE IF n = 1 THEN c
    ELSE Rep(c, n \div 2) \o Rep(c, n - (n \div 2))

\* s padded with c to exactly n characters
Pad(s, c, n) == s \o Rep(c, n - Len(s))

\* the most rows (code files plus conversation turns) one call is given
MaxArgs == 4

QueryA == "explain this python import bug"
QueryB == "hello"
QueryC == "Review APP.PY, d.py and Util.js (Python)"
QueryPool == {QueryA, QueryB, QueryC}

FileApp ==
    [content |-> "import os\nprint(1)", filename |-> "app.py",
     language |-> Some("python"), analysis |-> Some("Looks fine.")]
FileLong ==
    [content |-> Pad("IMPORT x; For(;;){}", "x", ContentLimit + 1),
     filename |-> "Util.JS", language |-> Some("JavaScript"),
     analysis |-> Some(Rep("a", AnalysisLimit + 1))]
FileEdge ==
    [content |-> Pad("import ", "y", ContentLimit), filename |-> "d.py",
     language |-> Some(""), analysis |-> Some(Rep("b", AnalysisLimit))]
FileNone ==
    [content |-> "print(1)", filename |-> "a.py",
     language |-> None, analysis |-> None]
FilePool == {FileApp, FileLong, FileEdge, FileNone}

TurnShort == [user_message |-> "What is a loop?", bot_response |-> "A loop repeats."]
TurnLong  == [user_message |-> "And recursion?",
              bot_response |-> Rep("r", ResponseLimit + 100)]
TurnEdge  == [user_message |-> "Why?", bot_response |-> Rep("e", ResponseLimit)]
TurnPool == {TurnShort, TurnLong, TurnEdge}

NoCall == [fn |-> "none", storage |-> StorageOk, gen_ok |-> FALSE,
           gen_text |-> "", returned |-> "", generate_calls |-> 0]

InitBsc ==
    /\ user_query = ""
    /\ arg_files = <<>>
    /\ arg_history = <<>>
    /\ scores = <<>>
    /\ relevant_files = <<>>
    /\ context_parts = <<>>
    /\ context = ""
    /\ bsc_pc = "args"
    /\ call = NoCall

\* the code_files SELECT will return one more row
AddFile(f) ==
    /\ bsc_pc = "args"
    /\ Len(arg_files) + Len(arg_history) < MaxArgs
    /\ arg_files' = Append(arg_files, f)
    /\ UNCHANGED <<user_query, arg_history, scores, relevant_files,
                   context_parts, context, bsc_pc, call, appVars>>

\* the chat_history SELECT will return one more row (at most LIMIT 3)
AddTurn(t) ==
    /\ bsc_pc = "args"
    /\ Len(arg_files) + Len(arg_history) < MaxArgs
    /\ Len(arg_history) < TurnsFetched
    /\ arg_history' = Append(arg_history, t)
    /\ UNCHANGED <<user_query, arg_files, scores, relevant_files,
                   context_parts, context, bsc_pc, call, appVars>>

\* get_rag_response(q, user_id) runs up to its generate call
RagBegin(q, storage) ==
    /\ bsc_pc = "args"
    /\ LET rag == RagContext(q, arg_files, arg_history, storage)
       IN  /\ user_query' = q
           /\ scores' = rag.built.scores
           /\ relevant_files' = rag.built.relevant_files
           /\ context_parts' = rag.built.context_parts
           /\ context' = rag.built.context
           /\ call' = [NoCall EXCEPT !.fn = "get_rag_response",
                                     !.storage = storage,
                                     !.returned = rag.returned]
    /\ bsc_pc' = "generating"
    /\ UNCHANGED <<arg_files, arg_history, appVars>>

\* the generate call of get_rag_response ends, or was never reached
RagEnd(gen) ==
    /\ bsc_pc = "generating"
    /\ LET rag == [done |-> ~call.storage.ok, returned |-> call.returned]
           r   == get_rag_response(rag, gen)
       IN  call' = [call EXCEPT !.gen_ok = ~rag.done /\ gen.ok,
                                !.gen_text = IF rag.done THEN "" ELSE gen.text,
                                !.returned = r.returned,
                                !.generate_calls = r.generate_calls]
    /\ bsc_pc' = "returned"
    /\ UNCHANGED <<user_query, arg_files, arg_history, scores, relevant_files,
                   context_parts, context, appVars>>

\* analyze_code_with_gemini(code_content, language) runs
Review(gen) ==
    /\ bsc_pc = "args"
    /\ LET r == analyze_code_with_gemini(gen)
       IN  call' = [NoCall EXCEPT !.fn = "analyze_code_with_gemini",
                                  !.gen_ok = gen.ok, !.gen_text = gen.text,
                                  !.returned = r.returned,
                                  !.generate_calls = r.generate_calls]
    /\ bsc_pc' = "returned"
    /\ UNCHANGED <<user_query, arg_files, arg_history, scores, relevant_files,
                   context_parts, context, appVars>>

-----------------------------------------------------------------------------
(* The request handlers.  A handler that calls model.generate_content is two
   steps: up to the call (the request is then in flight on a worker) and from
   the call's outcome on.  Flask keeps `session` in a cookie: a request works
   on the copy it arrived with, and its response sets the cookie when the
   handler changed the copy (flash() changes it too).  The storage reads and
   writes of the handlers themselves are taken to succeed. *)

\* worker threads of the server that can each hold one blocked request
Workers == {1, 2}

SignupForms ==
    {[username |-> "alice", email |-> "a@x.org", password |-> "pw", confirm_password |-> "pw"],
     [username |-> "bob",   email |-> "b@x.org", password |-> "pw", confirm_password |-> "pw"],
     [username |-> "alice", email |-> "a@x.org", password |-> "pw", confirm_password |-> "pv"]}
LoginForms ==
    {[username |-> "alice", password |-> "pw"],
     [username |-> "bob",   password |-> "pw"],
     [username |-> "bob",   password |-> "guess"]}
UploadForms ==
    {[filename |-> "app.py", code_content |-> "import os", language |-> "python"],
     [filename |-> "", code_content |-> "x = 1", language |-> "unknown"]}
ChatMessages == {"", "hello"}
FileIds == 1..MaxRows

NoSession == [user_id |-> 0, username |-> "", session_id |-> 0]
Idle == [kind |-> "idle"]

InitApp ==
    /\ users = <<>>
    /\ code_files = <<>>
    /\ file_seq = 0
    /\ chat_history = <<>>
    /\ now = 0
    /\ session = NoSession
    /\ inflight = [w \in Workers |-> Idle]

IdleWorkers == {w \in Workers : inflight[w].kind = "idle"}
FreeWorker == CHOOSE w \in IdleWorkers : \A v \in IdleWorkers : w <= v
ChatsInFlight == Cardinality({w \in Workers : inflight[w].kind = "chat"})
RowsInserted == file_seq + Len(chat_history) + ChatsInFlight

\* POST /signup
signup(form) ==
    /\ IF form.password # form.confirm_password
       THEN UNCHANGED users
       ELSE IF get_user_by_username(form.username) # 0
       THEN UNCHANGED users
       ELSE IF get_user_by_email(form.email) # 0
       THEN UNCHANGED users
       ELSE users' = create_user(form.username, form.email, form.password)
    /\ UNCHANGED <<code_files, file_seq, chat_history, now, session,
                   inflight, bscVars>>

\* POST /login
login(form) ==
    /\ LET user == get_user_by_username(form.username)
       IN  IF user # 0 /\ verify_password(form.password, users[user].password_hash)
           THEN session' = [session EXCEPT !.user_id = user,
                                           !.username = users[user].username]
           ELSE UNCHANGED session
    /\ UNCHANGED <<users, code_files, file_seq, chat_history, now,
                   inflight, bscVars>>

\* GET /logout
logout ==
    /\ session' = NoSession
    /\ UNCHANGED <<users, code_files, file_seq, chat_history, now,
                   inflight, bscVars>>

\* GET /dashboard: get_user_code_files and a render, or a redirect to /login
dashboard ==
    /\ UNCHANGED vars

\* POST /upload, lines 381-393 and 406-407: up to the analyze call
upload_code(form) ==
    /\ IF session.user_id = 0
       THEN UNCHANGED <<code_files, file_seq, inflight>>
       ELSE IF form.code_content # "" /\ form.filename # ""
       THEN /\ RowsInserted < MaxRows
            /\ IdleWorkers # {}
            /\ code_files' = save_code_file(session.user_id, form.filename,
                                            form.code_content, form.language)
            /\ file_seq' = NextFileId
            /\ inflight' = [inflight EXCEPT ![FreeWorker] =
                               [kind |-> "upload", sess |-> session,
                                file_id |-> NextFileId]]
       ELSE UNCHANGED <<code_files, file_seq, inflight>>
    /\ UNCHANGED <<users, chat_history, now, session, bscVars>>

\* POST /upload, lines 395-405: the analyze call returns, the UPDATE, the
\* flash and the redirect
upload_code_review(w, gen) ==
    /\ inflight[w].kind = "upload"
    /\ code_files' = UpdateAnalysis(analyze_code_with_gemini(gen).returned,
                                    inflight[w].file_id)
    /\ session' = inflight[w].sess
    /\ inflight' = [inflight EXCEPT ![w] = Idle]
    /\ UNCHANGED <<users, file_seq, chat_history, now, bscVars>>

\* the session ids some cookie, request or stored turn holds
SessionIdsHeld ==
    {session.session_id}
    \cup {chat_history[i].session_id : i \in 1..Len(chat_history)}
    \cup {inflight[w].sess.session_id :
             w \in {v \in Workers : inflight[v].kind # "idle"}}

\* str(uuid.uuid4()): a value nobody holds; ids are numbered, 0 is "no id",
\* and the draw is written as the least number not held
uuid4 == CHOOSE n \in 1..(Cardinality(SessionIdsHeld) + 1) :
            /\ n \notin SessionIdsHeld
            /\ \A m \in 1..(n - 1) : m \in SessionIdsHeld

\* lines 418-419: the request's session, with a session_id drawn if it had none
WithSessionId(sess) ==
    IF sess.session_id = 0
    THEN [sess EXCEPT !.session_id = uuid4]
    ELSE sess

\* line 438
ContextSummary(user_message, user_id) ==
    LET OfUser(r) == r.user_id = user_id
        fetched == Slice(OrderByCreatedDesc(SelectSeq(code_files, OfUser)),
                         SummaryFetched)
    IN  "Query: " \o user_message \o "\nRelevant files: "
        \o ToString(Len(fetched)) \o " code files analyzed"

\* get_rag_response blocked in its generate call: whether it already ended,
\* with what, and the context its prompt holds
RagInFlight(user_message, user_id) ==
    LET rag == RagContext(user_message, SelectCodeFiles(user_id),
                          SelectChatHistory(user_id), StorageOk)
    IN  [done |-> rag.done, returned |-> rag.returned,
         context |-> rag.built.context]

\* /chat, lines 414-428 and 448-450: a GET, a POST with an empty message, or a
\* POST up to the generate call of get_rag_response
chat(user_message) ==
    /\ IF session.user_id = 0
       THEN UNCHANGED <<session, inflight>>
       ELSE IF user_message = ""
       THEN /\ session' = WithSessionId(session)
            /\ UNCHANGED inflight
       ELSE /\ RowsInserted < MaxRows
            /\ IdleWorkers # {}
            /\ inflight' = [inflight EXCEPT ![FreeWorker] =
                               [kind |-> "chat", sess |-> WithSessionId(session),
                                new_session |-> (session.session_id = 0),
                                user_message |-> user_message,
                                rag |-> RagInFlight(user_message, session.user_id)]]
            /\ UNCHANGED session
    /\ UNCHANGED <<users, code_files, file_seq, chat_history, now, bscVars>>

\* POST /chat, lines 428-446: the generate call returns, the turn is saved,
\* the JSON reply is sent
chat_reply(w, gen) ==
    /\ inflight[w].kind = "chat"
    /\ LET req == inflight[w]
       IN  /\ chat_history' =
                  save_chat_message(req.sess.user_id, req.sess.session_id,
                                    req.user_message,
                                    get_rag_response(req.rag, gen).returned,
                                    ContextSummary(req.user_message,
                                                   req.sess.user_id))
           /\ session' = IF req.new_session THEN req.sess ELSE session
    /\ inflight' = [inflight EXCEPT ![w] = Idle]
    /\ UNCHANGED <<users, code_files, file_seq, now, bscVars>>

\* GET /analyze/<file_id>: a SELECT and a render, or a redirect
analyze_code(file_id) ==
    /\ UNCHANGED vars

\* DELETE FROM code_files WHERE id = ? AND user_id = ?
DeleteRow(file_id, user_id) ==
    LET Kept(r) == ~(r.id = file_id /\ r.user_id = user_id)
    IN  SelectSeq(code_files, Kept)

\* the SELECT of line 482 finds a row
OwnsFile(file_id, user_id) ==
    \E i \in 1..Len(code_files) :
        code_files[i].id = file_id /\ code_files[i].user_id = user_id

\* POST /delete/<file_id> without the checks of lines 474 and 482-485
delete_any_file(file_id) ==
    /\ LET Kept(r) == r.id # file_id
       IN  code_files' = SelectSeq(code_files, Kept)
    /\ UNCHANGED <<users, file_seq, chat_history, now, session,
                   inflight, bscVars>>

\* POST /delete/<file_id>
delete_file(file_id) ==
    /\ IF session.user_id = 0
       THEN UNCHANGED code_files
       ELSE IF OwnsFile(file_id, session.user_id)
       THEN code_files' = DeleteRow(file_id, session.user_id)
       ELSE UNCHANGED code_files
    /\ UNCHANGED <<users, file_seq, chat_history, now, session,
                   inflight, bscVars>>

\* a second passes.  The clock is read only into created_at and created_at
\* is only compared, so the seconds that pass while no stored row carries
\* the current one are not told apart.
Tick ==
    /\ \/ \E i \in 1..Len(code_files) : code_files[i].created_at = now
       \/ \E i \in 1..Len(chat_history) : chat_history[i].created_at = now
    /\ now' = now + 1
    /\ UNCHANGED <<users, code_files, file_seq, chat_history, session,
                   inflight, bscVars>>

-----------------------------------------------------------------------------
(* The specifications *)

Init == InitBsc /\ InitApp

\* the application serving requests
Next ==
    \/ \E form \in SignupForms : signup(form)
    \/ \E form \in LoginForms : login(form)
    \/ logout
    \/ dashboard
    \/ \E form \in UploadForms : upload_code(form)
    \/ \E w \in Workers, gen \in GenOutcomes : upload_code_review(w, gen)
    \/ \E m \in ChatMessages : chat(m)
    \/ \E w \in Workers, gen \in GenOutcomes : chat_reply(w, gen)
    \/ \E id \in FileIds : analyze_code(id)
    \/ \E id \in FileIds : delete_file(id)
    \/ Tick

Spec == Init /\ [][Next]_vars

\* the core called on rows drawn from the pools
NextCtx ==
    \/ \E f \in FilePool : AddFile(f)
    \/ \E t \in TurnPool : AddTurn(t)
    \/ \E q \in QueryPool, st \in StorageOutcomes : RagBegin(q, st)
    \/ \E gen \in GenOutcomes : RagEnd(gen)
    \/ \E gen \in GenOutcomes : Review(gen)

SpecCtx == Init /\ [][NextCtx]_vars

-----------------------------------------------------------------------------
(* Properties of build_semantic_context and the two call sites (SpecCtx) *)

Range(seq) == {seq[i] : i \in 1..Len(seq)}

\* the lines of parts that start with pre
LinesWithPrefix(parts, pre) ==
    LET Has(l) == Len(l) >= Len(pre) /\ SubSeq(l, 1, Len(pre)) = pre
    IN  SelectSeq(parts, Has)

\* build_semantic_context has run on the chosen rows
Built == bsc_pc = "generating" /\ call.storage.ok

\* the truncation rule of the specification
Truncated(text, limit) ==
    IF Len(text) > limit THEN Slice(text, limit) \o "..." ELSE text

\* the number of lines of the conversation section
ConversationLen == IF Len(arg_history) = 0 THEN 0 ELSE 2 * Len(arg_history) + 2

\* the lines after the conversation section
FileSections == SubSeq(context_parts, ConversationLen + 1, Len(context_parts))

\* the context with every field truncated by the one rule
UniformParts ==
    (IF Len(arg_history) = 0 THEN <<>>
     ELSE <<"RECENT CONVERSATION CONTEXT:">>
          \o Flatten([i \in 1..Len(arg_history) |->
                LET t == arg_history[Len(arg_history) + 1 - i]
                IN  <<"User: " \o t.user_message,
                      "Assistant: " \o Truncated(t.bot_response, ResponseLimit)>>])
          \o <<"">>)
    \o (IF Len(relevant_files) = 0 THEN <<>>
        ELSE <<"RELEVANT CODE FILES:">>
             \o Flatten([i \in 1..Len(relevant_files) |->
                   LET f == relevant_files[i].file
                   IN  <<FileLine(f),
                         "Code:\n" \o Truncated(f.content, ContentLimit)>>
                       \o (IF Truthy(f.analysis)
                           THEN <<"Previous Analysis: "
                                  \o Truncated(f.analysis.val, AnalysisLimit)>>
                           ELSE <<>>)
                       \o <<"">>]))
    \o (IF Len(relevant_files) = 0 /\ Len(arg_files) > 0
        THEN <<"USER'S RECENT CODE FILES:">>
             \o Flatten([i \in 1..Min(TopRecent, Len(arg_files)) |->
                   <<FileLine(arg_files[i]),
                     "Code:\n" \o Truncated(arg_files[i].content, FallbackLimit),
                     "">>])
        ELSE <<>>)

\* C1: every truncated field of the context (assistant response at 200, ranked
\* content at 1000, prior analysis at 500, fallback content at 800) holds the
\* text unchanged when it is within the limit, and its first `limit`
\* characters followed by "..." when it is longer.
C1_UniformTruncation == Built => context_parts = UniformParts

\* the 12 vocabulary terms of the specification
C2_Vocabulary ==
    {"function", "class", "import", "def", "var", "const", "let", "if", "for",
     "while", "try", "catch"}

\* the score the specification gives a row
C2_Score(query, f) ==
    (IF ~f.language.isNone /\ f.language.val # ""
        /\ Contains(lower(f.language.val), lower(query)) THEN 3 ELSE 0)
    + (IF Contains(lower(f.filename), lower(query)) THEN 2 ELSE 0)
    + Cardinality({t \in C2_Vocabulary :
                      Contains(t, lower(query)) /\ Contains(t, lower(f.content))})

\* C2: the score computed for every row is 3 for a present language tag found
\* in the query, plus 2 for the filename found in the query, plus 1 for each
\* vocabulary term found in both query and content (all lowercased); it lies
\* in 0..17, and it is 4 for the query "explain this python import bug"
\* against app.py / python / content with "import".
C2_ScoreFormula ==
    Built =>
        /\ Len(scores) = Len(arg_files)
        /\ \A i \in 1..Len(arg_files) :
              /\ scores[i] = C2_Score(user_query, arg_files[i])
              /\ scores[i] \in 0..17
              /\ (user_query = QueryA /\ arg_files[i] = FileApp) => scores[i] = 4

C2_Witness ==
    /\ Built
    /\ user_query = QueryA
    /\ \E i \in 1..Len(arg_files) : arg_files[i] = FileApp /\ scores[i] = 4
    /\ \E i \in 1..Len(arg_files) : scores[i] = 0

\* the rows with a positive score, and the place of each in the ranking:
\* higher scores first, equal scores in input order
C3_Positive == {i \in 1..Len(arg_files) : scores[i] > 0}
C3_Rank(i) ==
    1 + Cardinality({j \in C3_Positive :
                        \/ scores[j] > scores[i]
                        \/ (scores[j] = scores[i] /\ j < i)})
C3_Listed ==
    [r \in 1..Min(3, Cardinality(C3_Positive)) |->
        LET i == CHOOSE j \in C3_Positive : C3_Rank(j) = r
        IN  [score |-> scores[i], file |-> arg_files[i]]]

\* C3: the relevant-files section lists exactly the first min(3, n) of the n
\* positive-score rows in descending score order with ties in input order.
C3_TopThreeStable ==
    Built =>
        /\ relevant_files = C3_Listed
        /\ Len(relevant_files) > 0 =>
              LinesWithPrefix(FileSections, "File: ")
                  = [r \in 1..Len(C3_Listed) |-> FileLine(C3_Listed[r].file)]

C3_Witness ==
    /\ Built
    /\ Cardinality(C3_Positive) > 3
    /\ Len(relevant_files) = 3
    /\ relevant_files[2].score = relevant_files[3].score
    /\ relevant_files[2].file # relevant_files[3].file
    /\ relevant_files[1].score > relevant_files[2].score
    /\ scores[1] < relevant_files[1].score

\* C4: with a positive score only the relevant section is emitted; with none
\* and at least one row only the fallback section, holding the first
\* min(2, n) rows in input order with no analysis line; with no rows neither.
C4_SectionChoice ==
    Built =>
        LET relevant == "RELEVANT CODE FILES:" \in Range(context_parts)
            fallback == "USER'S RECENT CODE FILES:" \in Range(context_parts)
            positive == \E i \in 1..Len(arg_files) : scores[i] > 0
        IN  /\ ~(relevant /\ fallback)
            /\ positive => relevant /\ ~fallback
            /\ (~positive /\ Len(arg_files) > 0) =>
                  /\ ~relevant
                  /\ FileSections =
                        <<"USER'S RECENT CODE FILES:">>
                        \o Flatten([i \in 1..Min(2, Len(arg_files)) |->
                              <<FileLine(arg_files[i]),
                                "Code:\n" \o Truncated(arg_files[i].content,
                                                       FallbackLimit),
                                "">>])
            /\ Len(arg_files) = 0 => ~relevant /\ ~fallback /\ FileSections = <<>>

C4_Witness ==
    /\ Built
    /\ Len(arg_files) > 2
    /\ \A i \in 1..Len(arg_files) : scores[i] = 0
    /\ "USER'S RECENT CODE FILES:" \in Range(context_parts)
    /\ Len(FileSections) = 7

\* C5: both call sites return a string for every outcome: the model's text
\* verbatim on success, otherwise "Error analyzing code: <message>" or
\* "Error generating response: <message>"; generate is called at most once.
C5_NeverRaises ==
    bsc_pc = "returned" =>
        /\ call.generate_calls <= 1
        /\ call.fn = "analyze_code_with_gemini" =>
              call.returned = IF call.gen_ok THEN call.gen_text
                              ELSE "Error analyzing code: " \o call.gen_text
        /\ call.fn = "get_rag_response" =>
              call.returned =
                  IF ~call.storage.ok
                  THEN "Error generating response: " \o call.storage.text
                  ELSE IF call.gen_ok THEN call.gen_text
                  ELSE "Error generating response: " \o call.gen_text
        /\ (call.fn = "get_rag_response" /\ ~call.storage.ok) =>
              call.generate_calls = 0

C5_Witness ==
    /\ bsc_pc = "returned"
    /\ call.fn = "get_rag_response"
    /\ call.storage.ok
    /\ ~call.gen_ok
    /\ call.generate_calls = 1
    /\ Len(arg_files) > 0

-----------------------------------------------------------------------------
(* Properties of the stored rows under the request handlers (Spec) *)

HasFile(tbl, k) == \E i \in 1..Len(tbl) : tbl[i].id = k
FileRow(tbl, k) == tbl[CHOOSE i \in 1..Len(tbl) : tbl[i].id = k]

\* the turns of user u, oldest first, in the order they were saved
TurnsOf(u) ==
    LET OfUser(r) == r.user_id = u
    IN  SelectSeq(chat_history, OfUser)

\* the last min(3, n) saved turns of user u, oldest first
C6_Recent(u) ==
    LET all == TurnsOf(u)
    IN  SubSeq(all, Len(all) - Min(3, Len(all)) + 1, Len(all))

\* C6: the conversation section of the context built for a user's next query
\* holds exactly that user's min(3, n) most recently saved turns, oldest
\* first, each with its user message verbatim; with no turn there is no section.
C6_RecentTurnsInOrder ==
    \A u \in 1..Len(users) :
        LET parts ==
                RagContext("hello", SelectCodeFiles(u), SelectChatHistory(u),
                           StorageOk).built.context_parts
            recent == C6_Recent(u)
            section ==
                IF Len(recent) = 0 THEN <<>>
                ELSE <<"RECENT CONVERSATION CONTEXT:">>
                     \o Flatten([i \in 1..Len(recent) |->
                           <<"User: " \o recent[i].user_message,
                             AssistantLine(recent[i].bot_response)>>])
                     \o <<"">>
        IN  /\ Len(parts) >= Len(section)
            /\ SubSeq(parts, 1, Len(section)) = section
            /\ Len(recent) = 0 => "RECENT CONVERSATION CONTEXT:" \notin Range(parts)

\* a chat POST with a message leaves worker w in this step
ChatReplied(w) == inflight[w].kind = "chat" /\ inflight'[w] = Idle

\* the strings get_rag_response can return
C7_Returns ==
    {g.text : g \in {x \in GenOutcomes : x.ok}}
    \cup {"Error generating response: " \o g.text : g \in {x \in GenOutcomes : ~x.ok}}

\* C7: stored turns are append-only, and each chat POST with a message
\* appends exactly one turn holding the message, the string get_rag_response
\* returned, the requesting user and the session's session identifier.
C7_Step ==
    /\ Len(chat_history') >= Len(chat_history)
    /\ Len(chat_history') <= Len(chat_history) + 1
    /\ SubSeq(chat_history', 1, Len(chat_history)) = chat_history
    /\ (Len(chat_history') = Len(chat_history) + 1) <=> (\E w \in Workers : ChatReplied(w))
    /\ \A w \in Workers :
          ChatReplied(w) =>
              LET turn == chat_history'[Len(chat_history')]
              IN  /\ turn.user_message = inflight[w].user_message
                  /\ turn.user_message # ""
                  /\ turn.bot_response \in C7_Returns
                  /\ turn.user_id = inflight[w].sess.user_id
                  /\ turn.user_id # 0
                  /\ turn.session_id = inflight[w].sess.session_id
                  /\ turn.session_id # 0

C7_AppendOnly == [][C7_Step]_vars

C7_Witness ==
    /\ Len(chat_history) = 2
    /\ chat_history[1].bot_response = "Error generating response: 429 quota exceeded"
    /\ chat_history[2].bot_response = "Use a context manager."
    /\ chat_history[1].user_id # chat_history[2].user_id
    /\ \E i \in 1..Len(users) : session.user_id # i

\* C8: an artifact is created with no analysis, owned by the uploading user,
\* under an id never used before; its analysis is set once, by the review
\* step of the upload request that holds its id; once set, the row never
\* changes again, and it disappears only by its owner's delete.
C8_Step ==
    \A k \in FileIds :
        LET had == HasFile(code_files, k)
            has == HasFile(code_files', k)
            old == FileRow(code_files, k)
            new == FileRow(code_files', k)
        IN  /\ (~had /\ has) =>
                  /\ new.analysis = None
                  /\ session.user_id # 0
                  /\ new.user_id = session.user_id
                  /\ k > file_seq
                  /\ \A j \in 1..Len(code_files) : code_files[j].id < k
            /\ (had /\ has /\ new # old) =>
                  /\ old.analysis = None
                  /\ ~new.analysis.isNone
                  /\ new = [old EXCEPT !.analysis = new.analysis]
                  /\ \E w \in Workers :
                        /\ inflight[w].kind = "upload"
                        /\ inflight[w].file_id = k
                        /\ inflight[w].sess.user_id = old.user_id
                        /\ inflight'[w] = Idle
            /\ (had /\ ~has) => session.user_id = old.user_id

C8_AnalysisOnce == [][C8_Step]_vars

C8_Witness ==
    /\ file_seq = 2
    /\ Len(code_files) = 1
    /\ code_files[1].id = 2
    /\ ~code_files[1].analysis.isNone
    /\ \A w \in Workers : inflight[w].kind = "idle"

\* C9: every turn in the context of a query carries the session identifier of
\* the chat session in which the query is made.
C9_Step ==
    \A w \in Workers :
        (inflight[w].kind = "idle" /\ inflight'[w].kind = "chat") =>
            \A r \in Range(SelectChatRows(inflight'[w].sess.user_id)) :
                r.session_id = inflight'[w].sess.session_id

C9_ContextOfSession == [][C9_Step]_vars

\* C10: an artifact is removed only while its owner is logged in; a step that
\* removes one removes exactly one and leaves every other artifact, every
\* user and every conversation turn as it was.
C10_Step ==
    LET removed == {k \in FileIds : HasFile(code_files, k) /\ ~HasFile(code_files', k)}
        Kept(r) == r.id \notin removed
    IN  /\ Cardinality(removed) <= 1
        /\ removed # {} =>
              /\ session.user_id # 0
              /\ \A k \in removed : FileRow(code_files, k).user_id = session.user_id
              /\ code_files' = SelectSeq(code_files, Kept)
              /\ users' = users
              /\ chat_history' = chat_history

C10_DeleteOwnOnly == [][C10_Step]_vars

C10_Witness ==
    /\ file_seq = 1
    /\ code_files = <<>>
    /\ Len(chat_history) = 1
    /\ Len(users) = 2
    /\ chat_history[1].user_id # session.user_id
    /\ session.user_id # 0

====
